---- MODULE Spec2Model ----
(***************************************************************************)
(* Model of rebalancer_lambda/lambda_function.py: a handler that polls a   *)
(* chain for RebalanceRequested events in [from_block, current_block],     *)
(* invokes a Bedrock agent once per event and then stores current_block+1  *)
(* in the module global last_block_processed.                              *)
(*                                                                         *)
(* The module globals (w3, bedrock_agent_runtime, last_block_processed)    *)
(* live as long as the process; ColdStart replaces the process.  A pass    *)
(* is one call of lambda_handler; its locals are indexed by the thread     *)
(* that runs it.  Under Spec one thread runs passes one after another;     *)
(* under SpecOverlap two calls of the handler may interleave on the same   *)
(* globals.                                                                *)
(***************************************************************************)
EXTENDS Integers, Sequences, FiniteSets

VARIABLES
    threads,                \* the handler threads the runtime uses
    w3,                     \* module global, line 17
    bedrock_agent_runtime,  \* module global, line 18
    last_block_processed,   \* module global, line 19
    height,                 \* block number the provider reports
    pc,                     \* per thread: position inside lambda_handler
    current_block,          \* per thread: local of line 214
    from_block,             \* per thread: local of lines 215-217
    batch,                  \* per thread: ids of `events` (line 229), in order
    outcomes,               \* per thread: one record per invoke_agent of this pass
    result,                 \* per thread: how the last pass ended
    cause,                  \* per thread: where the last pass raised
    start_block,            \* per thread: last_block_processed when the pass began
    read_block,             \* per thread: value returned by get_last_processed_block
    scans,                  \* history: ranges handed to get_all_entries, with pass and process
    invokeCount,            \* history: invoke_agent calls per event id
    succeeded,              \* history: ids whose invocation completed cleanly
    failed,                 \* history: ids with an invocation that raised
    passes,                 \* number of passes started
    chainMoves,             \* number of height changes
    coldStarts,             \* number of process replacements
    \* The body of the for loop (lines 235-269) in detail, for one batch:
    d_pc,                   \* position inside the loop body
    d_batch,                \* `events`: ids in fetch order
    d_index,                \* index of event_data in d_batch
    d_sessions,             \* (event id, session_id) of each invoke_agent call so far
    completion,             \* response['completion'] of the current event: its chunks
    stream_error,           \* whether iterating completion raises after its last chunk
    chunk_pos,              \* number of chunks read from completion
    agent_response,         \* local of line 260
    d_outcome               \* what the body did for the current event

vars == <<threads, w3, bedrock_agent_runtime, last_block_processed, height, pc,
          current_block, from_block, batch, outcomes, result, cause,
          start_block, read_block, scans, invokeCount, succeeded, failed,
          passes, chainMoves, coldStarts,
          d_pc, d_batch, d_index, d_sessions, completion, stream_error,
          chunk_pos, agent_response, d_outcome>>

dispatchVars == <<d_pc, d_batch, d_index, d_sessions, completion, stream_error,
                  chunk_pos, agent_response, d_outcome>>
handlerVars == <<threads, w3, bedrock_agent_runtime, last_block_processed, height, pc,
                 current_block, from_block, batch, outcomes, result, cause,
                 start_block, read_block, scans, invokeCount, succeeded, failed,
                 passes, chainMoves, coldStarts>>

locals == <<current_block, from_block, batch, outcomes, result, cause,
            start_block, read_block>>
history == <<scans, invokeCount, succeeded, failed>>
globals == <<w3, bedrock_agent_runtime, last_block_processed>>

----------------------------------------------------------------------------
\* Bounds of the exploration.
MaxPasses == 2
MaxChainMoves == 2
MaxColdStarts == 1
InitHeight == 150
LowHeight == 1
MaxClock == 2
MaxChunks == 2

\* from_block = current_block - 100 (line 217).
Lookback == 100

HandlerThreads == {"t1", "t2"}

\* Height changes between two reads of w3.eth.block_number: one new block,
\* more new blocks than the lookback, or a lower height (re-org, lagging node).
HeightMoves == {1, Lookback + 1, 0 - 1}

\* The logs of the keeper contract on the chain.  id stands for
\* (txHash, logIndex); ids grow with (blockNumber, logIndex).  A log with
\* decodable = FALSE has the event's topic but data the ABI cannot decode.
\* timestamp is the event's uint256 argument, set by the contract; events 1
\* and 3 carry the same portfolio and the same timestamp.
ChainLogs ==
    { [id |-> 1, block |-> InitHeight - 1, portfolio |-> "A", timestamp |-> 7, decodable |-> TRUE],
      [id |-> 2, block |-> InitHeight,     portfolio |-> "B", timestamp |-> 7, decodable |-> TRUE],
      [id |-> 3, block |-> InitHeight + 1, portfolio |-> "A", timestamp |-> 7, decodable |-> TRUE],
      [id |-> 4, block |-> InitHeight + 2, portfolio |-> "A", timestamp |-> 9, decodable |-> FALSE] }

EventIds == {l.id : l \in {m \in ChainLogs : m.decodable}}
LogOf(i) == CHOOSE l \in ChainLogs : l.id = i
BlockOf(i) == LogOf(i).block

\* What the node returns for the filter [fromBlock, toBlock] when its head is h.
LogsInRange(fromBlock, toBlock, h) ==
    {l \in ChainLogs : fromBlock <= l.block /\ l.block <= toBlock /\ l.block <= h}

RECURSIVE SortedIds(_)
SortedIds(S) ==
    IF S = {} THEN <<>>
    ELSE LET m == CHOOSE x \in S : \A y \in S : x <= y
         IN <<m>> \o SortedIds(S \ {m})

\* The except clause of lines 267-269 only prints: the program keeps no
\* dead-letter record and schedules no retry.
DeadLetterRecords == {}
RetryPending == {}

\* time.time_ns() reads the wall clock: the readings of two calls are not
\* ordered and need not differ (clock steps, resolution, two threads).  Only
\* the equality of readings matters, so a call reads a value read before or
\* the next unused one.
UsedReadings == {d_sessions[k].session[4] : k \in 1..Len(d_sessions)}
ClockReadings == {t \in 1..MaxClock : t = 1 \/ (t - 1) \in UsedReadings}

\* f"rebalance_trigger_{portfolio_address}_{event_timestamp}_{time.time_ns()}"
SessionId(e, t) == <<"rebalance_trigger", LogOf(e).portfolio, LogOf(e).timestamp, t>>

InvokeOutcomes == {"ok", "invoke_raises", "stream_raises"}
Failures == {"invoke_raises", "stream_raises"}

----------------------------------------------------------------------------
InitCommon ==
    /\ w3 = "None"
    /\ bedrock_agent_runtime = "None"
    /\ last_block_processed = 0
    /\ pc = [p \in HandlerThreads |-> "idle"]
    /\ current_block = [p \in HandlerThreads |-> 0]
    /\ from_block = [p \in HandlerThreads |-> 0]
    /\ batch = [p \in HandlerThreads |-> <<>>]
    /\ outcomes = [p \in HandlerThreads |-> <<>>]
    /\ result = [p \in HandlerThreads |-> "none"]
    /\ cause = [p \in HandlerThreads |-> "none"]
    /\ start_block = [p \in HandlerThreads |-> 0]
    /\ read_block = [p \in HandlerThreads |-> 0]
    /\ scans = <<>>
    /\ invokeCount = [i \in EventIds |-> 0]
    /\ succeeded = {}
    /\ failed = {}
    /\ passes = 0
    /\ chainMoves = 0
    /\ coldStarts = 0

\* The detailed loop body is not run.
DispatchOff ==
    /\ d_pc = "off"
    /\ d_batch = <<>>
    /\ d_index = 0
    /\ d_sessions = <<>>
    /\ completion = <<>>
    /\ stream_error = FALSE
    /\ chunk_pos = 0
    /\ agent_response = <<>>
    /\ d_outcome = "none"

\* One handler thread; the chain is young (fewer blocks than the lookback)
\* or already holds the logs of ChainLogs.
Init == threads = {"t1"} /\ height \in {LowHeight, InitHeight} /\ InitCommon /\ DispatchOff
InitOverlap == threads = HandlerThreads /\ height = InitHeight /\ InitCommon /\ DispatchOff

\* An exception that leaves lambda_handler: the pass ends, nothing else runs.
Raise(p, where) ==
    /\ pc' = [pc EXCEPT ![p] = "idle"]
    /\ result' = [result EXCEPT ![p] = "error"]
    /\ cause' = [cause EXCEPT ![p] = where]

BeginPass(p) ==
    /\ p \in threads
    /\ pc[p] = "idle"
    /\ passes < MaxPasses
    /\ passes' = passes + 1
    /\ w3' = "client"
    /\ bedrock_agent_runtime' = "client"
    /\ start_block' = [start_block EXCEPT ![p] = last_block_processed]
    /\ current_block' = [current_block EXCEPT ![p] = 0]
    /\ from_block' = [from_block EXCEPT ![p] = 0]
    /\ read_block' = [read_block EXCEPT ![p] = 0]
    /\ batch' = [batch EXCEPT ![p] = <<>>]
    /\ outcomes' = [outcomes EXCEPT ![p] = <<>>]

\* initialize_clients with w3.is_connected() true.
InitializeClients(p) ==
    /\ BeginPass(p)
    /\ pc' = [pc EXCEPT ![p] = "block_number"]
    /\ result' = [result EXCEPT ![p] = "none"]
    /\ cause' = [cause EXCEPT ![p] = "none"]
    /\ UNCHANGED <<dispatchVars, threads, last_block_processed, height, history, chainMoves, coldStarts>>

\* initialize_clients with w3.is_connected() false: line 197 raises.
InitializeClientsFail(p) ==
    /\ BeginPass(p)
    /\ Raise(p, "connect")
    /\ UNCHANGED <<dispatchVars, threads, last_block_processed, height, history, chainMoves, coldStarts>>

\* current_block = w3.eth.block_number
ReadBlockNumber(p) ==
    /\ pc[p] = "block_number"
    /\ current_block' = [current_block EXCEPT ![p] = height]
    /\ pc' = [pc EXCEPT ![p] = "checkpoint"]
    /\ UNCHANGED <<dispatchVars, threads, globals, height, from_block, batch, outcomes, result, cause,
                   start_block, read_block, history, passes, chainMoves, coldStarts>>

ReadBlockNumberFail(p) ==
    /\ pc[p] = "block_number"
    /\ Raise(p, "block_number")
    /\ UNCHANGED <<dispatchVars, threads, globals, height, current_block, from_block, batch, outcomes,
                   start_block, read_block, history, passes, chainMoves, coldStarts>>

get_last_processed_block == last_block_processed

\* Variant: the scan starts one block after the stored value.
ReadCheckpointPlusOne(p) ==
    /\ pc[p] = "checkpoint"
    /\ read_block' = [read_block EXCEPT ![p] = get_last_processed_block]
    /\ from_block' = [from_block EXCEPT ![p] =
                        IF get_last_processed_block = 0
                        THEN current_block[p] - Lookback
                        ELSE get_last_processed_block + 1]
    /\ pc' = [pc EXCEPT ![p] = "create_filter"]
    /\ UNCHANGED <<dispatchVars, threads, globals, height, current_block, batch, outcomes, result, cause,
                   start_block, history, passes, chainMoves, coldStarts>>

\* Variant: a missing checkpoint is not seeded, the scan starts at block 0.
ReadCheckpointNoSeed(p) ==
    /\ pc[p] = "checkpoint"
    /\ read_block' = [read_block EXCEPT ![p] = get_last_processed_block]
    /\ from_block' = [from_block EXCEPT ![p] = get_last_processed_block]
    /\ pc' = [pc EXCEPT ![p] = "create_filter"]
    /\ UNCHANGED <<dispatchVars, threads, globals, height, current_block, batch, outcomes, result, cause,
                   start_block, history, passes, chainMoves, coldStarts>>

\* from_block = get_last_processed_block(); if 0, current_block - 100.
ReadCheckpoint(p) ==
    /\ pc[p] = "checkpoint"
    /\ read_block' = [read_block EXCEPT ![p] = get_last_processed_block]
    /\ from_block' = [from_block EXCEPT ![p] =
                        IF get_last_processed_block = 0
                        THEN current_block[p] - Lookback
                        ELSE get_last_processed_block]
    /\ pc' = [pc EXCEPT ![p] = "create_filter"]
    /\ UNCHANGED <<dispatchVars, threads, globals, height, current_block, batch, outcomes, result, cause,
                   start_block, history, passes, chainMoves, coldStarts>>

\* create_filter(fromBlock=from_block, toBlock=current_block)
CreateFilter(p) ==
    /\ pc[p] = "create_filter"
    /\ pc' = [pc EXCEPT ![p] = "get_all_entries"]
    /\ UNCHANGED <<dispatchVars, threads, globals, height, locals, history, passes, chainMoves, coldStarts>>

CreateFilterFail(p) ==
    /\ pc[p] = "create_filter"
    /\ Raise(p, "create_filter")
    /\ UNCHANGED <<dispatchVars, threads, globals, height, current_block, from_block, batch, outcomes,
                   start_block, read_block, history, passes, chainMoves, coldStarts>>

\* events = rebalance_event_filter.get_all_entries(): every log of the range
\* is decoded with the event ABI.
GetAllEntries(p) ==
    /\ pc[p] = "get_all_entries"
    /\ LET found == LogsInRange(from_block[p], current_block[p], height)
       IN /\ \A l \in found : l.decodable
          /\ batch' = [batch EXCEPT ![p] = SortedIds({l.id : l \in found})]
          /\ pc' = [pc EXCEPT ![p] = IF found = {} THEN "commit" ELSE "loop"]
    /\ scans' = Append(scans, [from |-> from_block[p], to |-> current_block[p],
                               by |-> passes, process |-> coldStarts])
    /\ UNCHANGED <<dispatchVars, threads, globals, height, current_block, from_block, outcomes, result, cause,
                   start_block, read_block, invokeCount, succeeded, failed,
                   passes, chainMoves, coldStarts>>

\* Variant: the checkpoint is stored on the way out of a failed fetch.
GetAllEntriesFailStoresCheckpoint(p) ==
    /\ pc[p] = "get_all_entries"
    /\ Raise(p, "get_all_entries")
    /\ last_block_processed' = current_block[p] + 1
    /\ UNCHANGED <<dispatchVars, threads, w3, bedrock_agent_runtime, height, current_block, from_block,
                   batch, outcomes, start_block, read_block, history,
                   passes, chainMoves, coldStarts>>

\* The provider fails while the entries are fetched.
GetAllEntriesFail(p) ==
    /\ pc[p] = "get_all_entries"
    /\ Raise(p, "get_all_entries")
    /\ UNCHANGED <<dispatchVars, threads, globals, height, current_block, from_block, batch, outcomes,
                   start_block, read_block, history, passes, chainMoves, coldStarts>>

\* A log of the range cannot be decoded: the decoding error leaves
\* get_all_entries and, with no handler around line 229, lambda_handler.
GetAllEntriesDecodeError(p) ==
    /\ pc[p] = "get_all_entries"
    /\ \E l \in LogsInRange(from_block[p], current_block[p], height) : ~l.decodable
    /\ Raise(p, "decode")
    /\ UNCHANGED <<dispatchVars, threads, globals, height, current_block, from_block, batch, outcomes,
                   start_block, read_block, history, passes, chainMoves, coldStarts>>

\* Where the loop goes after the body ran for the event at index i.
AfterEvent(p, i) == IF i = Len(batch[p]) THEN "commit" ELSE "loop"

\* Variant: the except clause is missing, a failed invocation leaves the handler.
ProcessEventUncaught(p) ==
    /\ pc[p] = "loop"
    /\ LET i == Len(outcomes[p]) + 1
           e == batch[p][i]
       IN \E o \in InvokeOutcomes :
            /\ outcomes' = [outcomes EXCEPT ![p] = Append(@, [id |-> e, outcome |-> o])]
            /\ invokeCount' = [invokeCount EXCEPT ![e] = @ + 1]
            /\ succeeded' = IF o = "ok" THEN succeeded \cup {e} ELSE succeeded
            /\ failed' = IF o \in Failures THEN failed \cup {e} ELSE failed
            /\ IF o \in Failures
               THEN Raise(p, "invoke_agent")
               ELSE /\ pc' = [pc EXCEPT ![p] = AfterEvent(p, i)]
                    /\ UNCHANGED <<result, cause>>
    /\ UNCHANGED <<dispatchVars, threads, globals, height, current_block, from_block, batch,
                   start_block, read_block, scans, passes, chainMoves, coldStarts>>

\* One iteration of the for loop (lines 235-269): invoke_agent, read the
\* completion stream; any exception is caught and printed.
ProcessEvent(p) ==
    /\ pc[p] = "loop"
    /\ LET i == Len(outcomes[p]) + 1
           e == batch[p][i]
       IN \E o \in InvokeOutcomes :
            /\ outcomes' = [outcomes EXCEPT ![p] = Append(@, [id |-> e, outcome |-> o])]
            /\ invokeCount' = [invokeCount EXCEPT ![e] = @ + 1]
            /\ succeeded' = IF o = "ok" THEN succeeded \cup {e} ELSE succeeded
            /\ failed' = IF o \in Failures THEN failed \cup {e} ELSE failed
            /\ pc' = [pc EXCEPT ![p] = AfterEvent(p, i)]
    /\ UNCHANGED <<dispatchVars, threads, globals, height, current_block, from_block, batch, result, cause,
                   start_block, read_block, scans, passes, chainMoves, coldStarts>>

\* Variant: the stored value is one less.
set_last_processed_block_less(block_number) == last_block_processed' = block_number - 1

set_last_processed_block(block_number) == last_block_processed' = block_number

\* set_last_processed_block(current_block + 1); return statusCode 200.
Commit(p) ==
    /\ pc[p] = "commit"
    /\ set_last_processed_block(current_block[p] + 1)
    /\ pc' = [pc EXCEPT ![p] = "idle"]
    /\ result' = [result EXCEPT ![p] = "ok"]
    /\ UNCHANGED <<dispatchVars, threads, w3, bedrock_agent_runtime, height, current_block, from_block,
                   batch, outcomes, cause, start_block, read_block, history,
                   passes, chainMoves, coldStarts>>

\* The process is replaced between invocations: the module globals are
\* initialised again (lines 17-19) and the locals of earlier passes are gone.
ColdStart ==
    /\ \A p \in HandlerThreads : pc[p] = "idle"
    /\ coldStarts < MaxColdStarts
    /\ coldStarts' = coldStarts + 1
    /\ w3' = "None"
    /\ bedrock_agent_runtime' = "None"
    /\ last_block_processed' = 0
    /\ current_block' = [p \in HandlerThreads |-> 0]
    /\ from_block' = [p \in HandlerThreads |-> 0]
    /\ batch' = [p \in HandlerThreads |-> <<>>]
    /\ outcomes' = [p \in HandlerThreads |-> <<>>]
    /\ result' = [p \in HandlerThreads |-> "none"]
    /\ cause' = [p \in HandlerThreads |-> "none"]
    /\ start_block' = [p \in HandlerThreads |-> 0]
    /\ read_block' = [p \in HandlerThreads |-> 0]
    /\ UNCHANGED <<dispatchVars, threads, height, pc, history, passes, chainMoves>>

\* The block number the provider reports changes.
ChainMove ==
    /\ chainMoves < MaxChainMoves
    /\ \E d \in HeightMoves :
         /\ height + d >= 0
         /\ height' = height + d
    /\ chainMoves' = chainMoves + 1
    /\ UNCHANGED <<dispatchVars, threads, globals, pc, locals, history, passes, coldStarts>>

Next ==
    \/ \E p \in HandlerThreads :
         \/ InitializeClients(p)
         \/ InitializeClientsFail(p)
         \/ ReadBlockNumber(p)
         \/ ReadBlockNumberFail(p)
         \/ ReadCheckpoint(p)
         \/ CreateFilter(p)
         \/ CreateFilterFail(p)
         \/ GetAllEntries(p)
         \/ GetAllEntriesFail(p)
         \/ GetAllEntriesDecodeError(p)
         \/ ProcessEvent(p)
         \/ Commit(p)
    \/ ColdStart
    \/ ChainMove

Spec == Init /\ [][Next]_vars
SpecOverlap == InitOverlap /\ [][Next]_vars

TypeOK ==
    /\ threads \subseteq HandlerThreads
    /\ last_block_processed \in Nat
    /\ height \in Nat
    /\ \A p \in HandlerThreads : result[p] \in {"none", "ok", "error"}

----------------------------------------------------------------------------
\* The body of the for loop in detail: session id, invoke_agent, and the
\* read of the completion stream (lines 248-268), for one fetched batch.

\* Bytes of the response: 61 is the one-byte character a; C3 A9 is the
\* two-byte UTF-8 sequence of one character.

\* bytes.decode('utf-8'): the text, or a UnicodeDecodeError (ok = FALSE)
\* when the bytes are not complete UTF-8 sequences.
RECURSIVE Utf8Decode(_)
Utf8Decode(bs) ==
    IF bs = <<>> THEN [ok |-> TRUE, text |-> <<>>]
    ELSE IF Head(bs) = "61"
         THEN LET r == Utf8Decode(Tail(bs))
              IN [ok |-> r.ok, text |-> IF r.ok THEN <<"a">> \o r.text ELSE <<>>]
    ELSE IF Head(bs) = "C3" /\ Len(bs) >= 2 /\ bs[2] = "A9"
         THEN LET r == Utf8Decode(SubSeq(bs, 3, Len(bs)))
              IN [ok |-> r.ok, text |-> IF r.ok THEN <<"e_acute">> \o r.text ELSE <<>>]
    ELSE [ok |-> FALSE, text |-> <<>>]

\* The events of a completion stream: chunks with a 'bytes' key and events
\* without one (traces).
HasBytes(chunk) == "bytes" \in DOMAIN chunk
ChunkSet ==
    {[trace |-> "step"]} \cup
    {[bytes |-> b] : b \in {<<"61">>, <<"C3">>, <<"A9">>, <<"C3", "A9">>}}

RECURSIVE AllBytes(_)
AllBytes(chunks) ==
    IF chunks = <<>> THEN <<>>
    ELSE (IF HasBytes(Head(chunks)) THEN Head(chunks).bytes ELSE <<>>) \o AllBytes(Tail(chunks))

ChunkSeqs == UNION {[1..n -> ChunkSet] : n \in 0..MaxChunks}

\* The agent answers with UTF-8 text, cut into chunks at any byte.
Streams == {c \in ChunkSeqs : Utf8Decode(AllBytes(c)).ok}

Batches == {SortedIds(S) : S \in (SUBSET EventIds) \ {{}}}

InitDispatch ==
    /\ threads = {}
    /\ height = InitHeight
    /\ InitCommon
    /\ d_pc = "invoke"
    /\ d_batch \in Batches
    /\ d_index = 1
    /\ d_sessions = <<>>
    /\ completion = <<>>
    /\ stream_error = FALSE
    /\ chunk_pos = 0
    /\ agent_response = <<>>
    /\ d_outcome = "none"

\* Lines 250-260: session_id is built, invoke_agent returns a response,
\* agent_response = "".
InvokeAgent ==
    /\ d_pc = "invoke"
    /\ \E t \in ClockReadings :
         d_sessions' = Append(d_sessions,
                              [id |-> d_batch[d_index], session |-> SessionId(d_batch[d_index], t)])
    /\ \E c \in Streams, err \in BOOLEAN :
         /\ completion' = c
         /\ stream_error' = err
    /\ chunk_pos' = 0
    /\ agent_response' = <<>>
    /\ d_pc' = "stream"
    /\ UNCHANGED <<d_batch, d_index, d_outcome, handlerVars>>

\* invoke_agent raises: the except clause prints the error.
InvokeAgentRaises ==
    /\ d_pc = "invoke"
    /\ \E t \in ClockReadings :
         d_sessions' = Append(d_sessions,
                              [id |-> d_batch[d_index], session |-> SessionId(d_batch[d_index], t)])
    /\ d_outcome' = "Failed"
    /\ d_pc' = "done"
    /\ UNCHANGED <<d_batch, d_index, completion, stream_error, chunk_pos, agent_response,
                   handlerVars>>

\* Lines 261-263 for one chunk: agent_response += chunk['bytes'].decode('utf-8')
\* when the chunk has bytes.
ReadChunk ==
    /\ d_pc = "stream"
    /\ chunk_pos < Len(completion)
    /\ LET chunk == completion[chunk_pos + 1]
       IN IF HasBytes(chunk)
          THEN /\ Utf8Decode(chunk.bytes).ok
               /\ agent_response' = agent_response \o Utf8Decode(chunk.bytes).text
          ELSE agent_response' = agent_response
    /\ chunk_pos' = chunk_pos + 1
    /\ UNCHANGED <<d_pc, d_batch, d_index, d_sessions, completion, stream_error, d_outcome,
                   handlerVars>>

\* decode raises UnicodeDecodeError inside the try: caught and printed.
ReadChunkDecodeError ==
    /\ d_pc = "stream"
    /\ chunk_pos < Len(completion)
    /\ LET chunk == completion[chunk_pos + 1]
       IN HasBytes(chunk) /\ ~Utf8Decode(chunk.bytes).ok
    /\ d_outcome' = "Failed"
    /\ d_pc' = "done"
    /\ UNCHANGED <<d_batch, d_index, d_sessions, completion, stream_error, chunk_pos,
                   agent_response, handlerVars>>

\* The stream is exhausted: line 265 prints agent_response.
StreamEnds ==
    /\ d_pc = "stream"
    /\ chunk_pos = Len(completion)
    /\ ~stream_error
    /\ d_outcome' = "Succeeded"
    /\ d_pc' = "done"
    /\ UNCHANGED <<d_batch, d_index, d_sessions, completion, stream_error, chunk_pos,
                   agent_response, handlerVars>>

\* The stream raises after the chunks received so far: line 268 prints the error.
StreamRaises ==
    /\ d_pc = "stream"
    /\ chunk_pos = Len(completion)
    /\ stream_error
    /\ d_outcome' = "Failed"
    /\ d_pc' = "done"
    /\ UNCHANGED <<d_batch, d_index, d_sessions, completion, stream_error, chunk_pos,
                   agent_response, handlerVars>>

\* The for loop takes the next event, or ends.
NextEvent ==
    /\ d_pc = "done"
    /\ d_index' = d_index + 1
    /\ d_pc' = IF d_index = Len(d_batch) THEN "end" ELSE "invoke"
    /\ d_outcome' = "none"
    /\ completion' = <<>>
    /\ stream_error' = FALSE
    /\ chunk_pos' = 0
    /\ agent_response' = <<>>
    /\ UNCHANGED <<d_batch, d_sessions, handlerVars>>

NextDispatch ==
    \/ InvokeAgent
    \/ InvokeAgentRaises
    \/ ReadChunk
    \/ ReadChunkDecodeError
    \/ StreamEnds
    \/ StreamRaises
    \/ NextEvent

SpecDispatch == InitDispatch /\ [][NextDispatch]_vars

----------------------------------------------------------------------------
\* Helpers of the properties.
Ended(p) == pc[p] = "idle" /\ result[p] # "none"
Completed(p) == pc[p] = "idle" /\ result[p] = "ok"
Aborted(p) == pc[p] = "idle" /\ result[p] = "error"

CoveredBy(b) == {k \in 1..Len(scans) : scans[k].from <= b /\ b <= scans[k].to}

AttemptsIn(p, i) == {k \in 1..Len(outcomes[p]) : outcomes[p][k].id = i}
AllAttemptsFailed(p, i) ==
    /\ AttemptsIn(p, i) # {}
    /\ \A k \in AttemptsIn(p, i) : outcomes[p][k].outcome \in Failures

\* C1: the scanned ranges cover every block from the first pass's from_block
\* to the last pass's current_block exactly once: no block is scanned zero
\* times and none by two passes, also across a cold start.
C1_ExactCoverage ==
    Len(scans) > 0 =>
        \A b \in scans[1].from .. scans[Len(scans)].to : Cardinality(CoveredBy(b)) = 1

\* C2: an event presented to the pipeline more than once causes at most one
\* invoke_agent dispatch.
C2_AtMostOneDispatch == \A i \in EventIds : invokeCount[i] <= 1

\* C3: the checkpoint is never past the block of an event whose invocation
\* failed and is recorded by nothing but a log line (no success, no
\* dead-letter record, no pending retry).
C3_CheckpointOnlyPastRecorded ==
    \A i \in failed \ (succeeded \cup DeadLetterRecords \cup RetryPending) :
        last_block_processed <= BlockOf(i)

\* C4: no completed pass leaves last_block_processed lower than it was
\* before the pass, whatever height the provider reports.
C4_CheckpointMonotonic ==
    [][\A p \in HandlerThreads :
          (pc[p] = "commit" /\ pc'[p] = "idle") =>
              last_block_processed' >= start_block[p]]_vars

\* C5: a pass aborted by an infrastructure failure (connect, block number,
\* filter creation, fetch) leaves last_block_processed at the value it had
\* before the pass.
C5_AbortKeepsCheckpoint ==
    \A p \in HandlerThreads :
        (Aborted(p) /\ cause[p] \in {"connect", "block_number", "create_filter", "get_all_entries"})
            => last_block_processed = start_block[p]

C5_Witness ==
    \E p \in HandlerThreads :
        /\ Aborted(p)
        /\ cause[p] = "get_all_entries"
        /\ start_block[p] > 0
        /\ last_block_processed = start_block[p]

\* C6: a failed agent invocation (invoke_agent raising, or the stream
\* raising) never aborts the batch: the pass goes on and every later event
\* of the batch is dispatched, in batch order, in the same pass.
C6_FailureDoesNotAbortBatch ==
    \A p \in HandlerThreads :
        /\ \A k \in 1..Len(outcomes[p]) :
              k <= Len(batch[p]) /\ outcomes[p][k].id = batch[p][k]
        /\ (\E k \in 1..Len(outcomes[p]) : outcomes[p][k].outcome \in Failures) =>
              /\ result[p] # "error"
              /\ pc[p] \in {"loop", "commit", "idle"}
              /\ pc[p] \in {"commit", "idle"} => Len(outcomes[p]) = Len(batch[p])

C6_Witness ==
    \E p \in HandlerThreads :
        /\ Completed(p)
        /\ Len(batch[p]) >= 2
        /\ outcomes[p][1].outcome \in Failures
        /\ Len(outcomes[p]) = Len(batch[p])
        /\ outcomes[p][Len(batch[p])].id = batch[p][Len(batch[p])]

\* C7: an undecodable log in the scanned range is skipped; every valid event
\* of the range is still dispatched in that pass.
C7_MalformedLogIsSkipped ==
    \A p \in HandlerThreads :
        (Ended(p) /\ cause[p] \notin {"connect", "block_number", "create_filter", "get_all_entries"}
                  /\ \E l \in ChainLogs :
                        ~l.decodable /\ from_block[p] <= l.block /\ l.block <= current_block[p])
            => \A l \in ChainLogs :
                  (l.decodable /\ from_block[p] <= l.block /\ l.block <= current_block[p])
                      => AttemptsIn(p, l.id) # {}

\* C8: an event whose invocation fails on every attempt is retried until 5
\* attempts were made, is then dead-lettered, and the checkpoint advances
\* past its block.
C8_RetriedUntilDeadLettered ==
    \A p \in HandlerThreads : \A i \in EventIds :
        (Completed(p) /\ AllAttemptsFailed(p, i)) =>
            /\ Cardinality(AttemptsIn(p, i)) = 5
            /\ i \in DeadLetterRecords
            /\ last_block_processed > BlockOf(i)

\* C9: a pass whose from_block is greater than current_block returns at
\* once: it creates no filter, fetches no entries and stores no checkpoint.
C9_NoNewBlocksReturnsAtOnce ==
    \A p \in HandlerThreads :
        pc[p] \in {"create_filter", "get_all_entries", "loop", "commit"}
            => from_block[p] <= current_block[p]

\* C10: the checkpoint write is a compare-and-swap: a pass whose read of the
\* checkpoint is stale by the time it writes does not overwrite it.
C10_StaleWriteRejected ==
    [][\A p \in HandlerThreads :
          (pc[p] = "commit" /\ pc'[p] = "idle" /\ last_block_processed # read_block[p])
              => last_block_processed' = last_block_processed]_vars

\* C11: for two events of one portfolio at blocks B1 < B2, the invocation
\* for the B1 event starts before the invocation for the B2 event: no
\* invoke_agent call for an event starts once a later-block event of the
\* same portfolio has been invoked.
C11_PortfolioOrder ==
    [][\A e \in EventIds :
          invokeCount'[e] > invokeCount[e] =>
              \A x \in EventIds :
                  (LogOf(x).portfolio = LogOf(e).portfolio /\ BlockOf(e) < BlockOf(x))
                      => invokeCount[x] = 0]_vars

\* The locals from_block and read_block of thread p hold this pass's values.
PastCheckpoint(p) == pc[p] \in {"create_filter", "get_all_entries", "loop", "commit"}

\* C12: when no checkpoint exists (the value read is 0) the pass starts its
\* scan at current_block - 100, not at block 0, so the range
\* [from_block, current_block] holds at most 101 blocks at any height.
C12_FirstRunSeed ==
    \A p \in HandlerThreads :
        (PastCheckpoint(p) /\ read_block[p] = 0) =>
            /\ from_block[p] = current_block[p] - Lookback
            /\ current_block[p] - from_block[p] + 1 <= Lookback + 1

C12_Witness ==
    \E p \in HandlerThreads :
        /\ pc[p] = "get_all_entries"
        /\ read_block[p] = 0
        /\ current_block[p] > Lookback + 1
        /\ from_block[p] = current_block[p] - Lookback

\* C13: the invocations for two distinct events always carry different
\* sessionIds, also when the events have the same portfolio address and the
\* same event timestamp.
C13_SessionIdsDistinct ==
    \A j \in 1..Len(d_sessions) : \A k \in 1..Len(d_sessions) :
        d_sessions[j].id # d_sessions[k].id => d_sessions[j].session # d_sessions[k].session

\* The loop body ended for the current event and invoke_agent had returned
\* a response (InvokeAgentRaises leaves no stream behind).
ResponseHandled ==
    /\ d_pc = "done"
    /\ ~(d_outcome = "Failed" /\ completion = <<>> /\ ~stream_error)

\* C14: the outcome is Succeeded, with the concatenation in stream order of
\* the payloads of all chunks as the response, exactly when the stream
\* completes cleanly; a stream that fails part-way gives Failed.
C14_SucceededIffCleanStream ==
    ResponseHandled =>
        /\ d_outcome = "Succeeded" <=> ~stream_error
        /\ d_outcome = "Succeeded" => agent_response = Utf8Decode(AllBytes(completion)).text
        /\ stream_error => d_outcome = "Failed"

\* C15: within one process, consecutive completed passes scan contiguous
\* ranges: the from_block of the later pass is the current_block of the
\* earlier pass plus 1.
C15_ContiguousRanges ==
    \A k \in 1..(Len(scans) - 1) :
        scans[k].process = scans[k + 1].process => scans[k + 1].from = scans[k].to + 1

C15_Witness ==
    /\ Len(scans) >= 2
    /\ scans[1].process = scans[2].process
    /\ scans[2].from = scans[1].to + 1
    /\ scans[2].to >= scans[2].from
    /\ \E p \in HandlerThreads : Completed(p)

\* A pass of the running process has completed (its range is in scans).
CompletedInProcess == \E k \in 1..Len(scans) : scans[k].process = coldStarts

\* C16: after a completed pass the stored value is current_block + 1 >= 1;
\* within one process the re-seed branch (read value 0) is taken exactly by
\* the passes that follow no completed pass.
C16_ReseedOnlyBeforeFirstCompletedPass ==
    [][/\ \A p \in HandlerThreads :
            (pc[p] = "checkpoint" /\ pc'[p] = "create_filter") =>
                (read_block'[p] = 0 <=> ~CompletedInProcess)
       /\ \A p \in HandlerThreads :
            (pc[p] = "commit" /\ pc'[p] = "idle") => last_block_processed' >= 1]_vars

C16_Witness ==
    \E p \in HandlerThreads :
        /\ PastCheckpoint(p)
        /\ read_block[p] = 0
        /\ passes >= 2
        /\ coldStarts = 0
        /\ from_block[p] = current_block[p] - Lookback

\* C17: the fromBlock handed to the log filter is a valid block number,
\* fromBlock >= 0, at every height.
C17_FromBlockNotNegative ==
    \A p \in HandlerThreads : PastCheckpoint(p) => from_block[p] >= 0

====
